---- MODULE Spec2Model ----
(***************************************************************************)
(* The workflow-state resource of the Linear Terraform provider            *)
(* (internal/provider/resource_workflow_state.go): the Create, Read,       *)
(* Update, Delete and ImportState handlers, the schema's validators and    *)
(* plan modifiers as the plugin framework applies them around the          *)
(* handlers, and the remote GraphQL API the handlers call.                 *)
(*                                                                         *)
(* One resource instance is modelled: `state` is what the host's state     *)
(* store holds for it, `remote` is the API's set of workflow states.       *)
(* op, request, diag, calls and response describe the latest invocation    *)
(* (request is the plan or the import identifier it was given); origin     *)
(* remembers how the stored record came about (the configuration it was    *)
(* created from, or an import) for as long as nothing but Read has run     *)
(* since.                                                                  *)
(***************************************************************************)
EXTENDS Integers, Sequences, FiniteSets, TLC

VARIABLES state, remote, nextId, planned, op, request, diag, calls, response,
          origin

vars ==
    <<state, remote, nextId, planned, op, request, diag, calls, response, origin>>

(***************************************************************************)
(* Bounds of the model.                                                    *)
(***************************************************************************)
\* Remote ids handed out by the API over a run.
MaxId == 2
\* Desired positions range over MaxPos - 2 .. MaxPos.
MaxPos == 5
\* Width of the wire float's mantissa (64-bit floats have 53 bits; the model
\* scales it down so that narrowing loses precision on small numbers).
MantBits == 2
\* Longest import identifier tried.
MaxIdLen == 3

(***************************************************************************)
(* types.String and types.Number of the plugin framework: a value or null. *)
(***************************************************************************)
StringNull == [null |-> TRUE]

StringValue(s) == [null |-> FALSE, value |-> s]

\* ValueString: the value, "" for null and unknown.
ValueString(v) == IF "value" \in DOMAIN v THEN v.value ELSE ""

\* A *string: nil is modelled as StringNull, a pointer as the value itself.
ValueStringPointer(v) == v

StringPointerValue(p) == p

NumberNull == [null |-> TRUE]

NumberValue(n) == [null |-> FALSE, value |-> n]

ValueBigFloat(v) == v.value

(***************************************************************************)
(* Numbers.  A local position is an arbitrary-precision number (a natural  *)
(* here); the wire carries a float: a mantissa of at most MantBits bits    *)
(* and an exponent, [m, e] standing for m * 2^e.                           *)
(***************************************************************************)
RECURSIVE Pow2(_)
Pow2(n) == IF n = 0 THEN 1 ELSE 2 * Pow2(n - 1)

RECURSIVE BitLen(_)
BitLen(x) == IF x = 0 THEN 0 ELSE 1 + BitLen(x \div 2)

\* (*big.Float).Float64: the nearest float, ties to the even mantissa.
Float64(x) ==
    IF BitLen(x) <= MantBits
    THEN [m |-> x, e |-> 0]
    ELSE LET e    == BitLen(x) - MantBits
             q    == x \div Pow2(e)
             r    == x % Pow2(e)
             half == Pow2(e - 1)
             up   == r > half \/ (r = half /\ q % 2 = 1)
             m    == IF up THEN q + 1 ELSE q
         IN  IF m = Pow2(MantBits)
             THEN [m |-> Pow2(MantBits - 1), e |-> e + 1]
             ELSE [m |-> m, e |-> e]

\* big.NewFloat: the exact value of a float.
NewFloat(f) == f.m * Pow2(f.e)

(***************************************************************************)
(* Domains the inputs are drawn from.                                      *)
(***************************************************************************)
Chars == {"D", "E", ":"}

ValidNames == {<<"D">>, <<"E">>}

WorkflowStateTypes ==
    {"triage", "backlog", "unstarted", "started", "completed", "canceled"}

HexColors == {"#ff0000", "#00ff00"}

TeamA == "6a1f0b1e-0000-4000-8000-00000000000a"

TeamB == "6a1f0b1e-0000-4000-8000-00000000000b"

Uuids == {TeamA, TeamB}

\* The key of each team, as findWorkflowState matches it.
TeamKey(team) == IF team = TeamA THEN <<"E">> ELSE <<"D">>

Positions == (MaxPos - 2) .. MaxPos

Descriptions == {StringNull, StringValue("d")}

\* Desired records that pass the schema's validators (the id is computed).
ValidConfigs ==
    [name : ValidNames, type : {"started", "completed"}, position : Positions,
     color : {"#ff0000"}, description : Descriptions, team_id : Uuids]

\* Desired records of which at least one attribute fails its validator.
InvalidConfigs ==
    [name : {<<>>, <<"D">>}, type : {"done", "started"}, position : {MaxPos},
     color : {"blue", "#ff0000"}, description : {StringNull},
     team_id : {"not-a-uuid", TeamA}]
    \ ValidConfigs

Configs == ValidConfigs \cup InvalidConfigs

\* The id the API gives the n-th workflow state created.
IdOf(n) == ToString(n)

Ids == {IdOf(n) : n \in 1 .. MaxId}

\* All import identifiers of at most MaxIdLen characters.
ImportIds == UNION {[1 .. n -> Chars] : n \in 0 .. MaxIdLen}

(***************************************************************************)
(* Values of the variables.                                                *)
(***************************************************************************)
\* The resource is not in the state store.
Absent == [present |-> FALSE]

\* No remote record under an id.
NoRecord == [exists |-> FALSE]

NoPlan == [pending |-> FALSE]

NoOrigin == [created |-> FALSE, imported |-> FALSE]

CreatedFrom(config) == [created |-> TRUE, imported |-> FALSE, config |-> config]

Imported == [created |-> FALSE, imported |-> TRUE]

NoResponse == [received |-> FALSE]

\* The request of an invocation: req.Plan, req.ID, or neither.
NoRequest == [kind |-> "none"]

PlanRequest(plan) == [kind |-> "plan", plan |-> plan]

ImportRequest(id) == [kind |-> "import", id |-> id]

StringUnknown == [unknown |-> TRUE]

NoError == "None"

ClientError == "Client Error"

ImportIdError == "Unexpected Import Identifier"

SchemaValidationError == "Invalid Attribute Value"

(***************************************************************************)
(* The schema: validators and plan modifiers.                              *)
(***************************************************************************)
\* stringvalidator.UTF8LengthAtLeast(1)
UTF8LengthAtLeast(s, n) == Len(s) >= n

\* stringvalidator.OneOf
OneOf(s, values) == s \in values

\* colorRegex(): a hex colour.
ColorRegexMatches(s) == s \in HexColors

\* uuidRegex(): a UUID.
UuidRegexMatches(s) == s \in Uuids

\* The validators without the one on color.
SchemaValid_NoColor(config) ==
    /\ UTF8LengthAtLeast(config.name, 1)
    /\ OneOf(config.type, WorkflowStateTypes)
    /\ UuidRegexMatches(config.team_id)

\* The validators of the schema's attributes, all of which must pass.
SchemaValid(config) ==
    /\ UTF8LengthAtLeast(config.name, 1)
    /\ OneOf(config.type, WorkflowStateTypes)
    /\ ColorRegexMatches(config.color)
    /\ UuidRegexMatches(config.team_id)

\* RequiresReplace on type only.
RequiresReplace_TypeOnly(plan, prior) == plan.type # prior.type

\* stringplanmodifier.RequiresReplace() on type and on team_id.
RequiresReplace(plan, prior) ==
    \/ plan.type # prior.type
    \/ plan.team_id # prior.team_id

\* The plan of a configuration: the configured values, and the computed id,
\* which stringplanmodifier.UseStateForUnknown() takes from the prior state.
PlanOf(config, prior) ==
    [id          |-> IF prior.present THEN prior.id ELSE StringUnknown,
     name        |-> StringValue(config.name),
     type        |-> StringValue(config.type),
     description |-> config.description,
     color       |-> StringValue(config.color),
     position    |-> NumberValue(config.position),
     team_id     |-> StringValue(config.team_id)]

\* The stored record of a model value.
Stored(data) ==
    [present |-> TRUE, id |-> data.id, name |-> data.name, type |-> data.type,
     description |-> data.description, color |-> data.color,
     position |-> data.position, team_id |-> data.team_id]

\* The model value read from a stored record.
Loaded(st) ==
    [id |-> st.id, name |-> st.name, type |-> st.type,
     description |-> st.description, color |-> st.color,
     position |-> st.position, team_id |-> st.team_id]

\* A state of which only the id attribute is set.
OnlyId(id) ==
    [present |-> TRUE, id |-> StringValue(id), name |-> StringNull,
     type |-> StringNull, description |-> StringNull, color |-> StringNull,
     position |-> NumberNull, team_id |-> StringNull]

\* The stored record has been read at least once (every attribute is set).
Populated(st) == st.present /\ ~st.name.null

(***************************************************************************)
(* The remote API, as the generated client functions present it: each call *)
(* either errors or returns the API's answer.  An outcome is a record      *)
(* [err, response, remote, nextId]: the store after the call.              *)
(***************************************************************************)
Failure == [err |-> TRUE]

Success(resp, store, next) ==
    [err |-> FALSE, response |-> resp, remote |-> store, nextId |-> next]

\* createWorkflowState(input): a new record under a fresh id.
createWorkflowState(input) ==
    {Failure} \cup
    IF nextId <= MaxId
    THEN {Success(
            [id |-> IdOf(nextId), name |-> input.name, type |-> input.type,
             position |-> input.position, color |-> input.color,
             description |-> input.description],
            [remote EXCEPT ![IdOf(nextId)] =
                [exists |-> TRUE, name |-> input.name, type |-> input.type,
                 position |-> input.position, color |-> input.color,
                 description |-> input.description, team |-> input.teamId]],
            nextId + 1)}
    ELSE {}

\* getWorkflowState(id): the record under id, with its team reference.
getWorkflowState(id) ==
    {Failure} \cup
    IF id \in Ids /\ remote[id].exists
    THEN {Success(
            [name |-> remote[id].name, type |-> remote[id].type,
             position |-> remote[id].position, color |-> remote[id].color,
             description |-> remote[id].description,
             team |-> [id |-> remote[id].team]],
            remote, nextId)}
    ELSE {}

\* updateWorkflowState(input, id): the four mutable fields are replaced.
updateWorkflowState(input, id) ==
    {Failure} \cup
    IF id \in Ids /\ remote[id].exists
    THEN {Success(
            [name |-> input.name, position |-> input.position,
             color |-> input.color, description |-> input.description],
            [remote EXCEPT ![id] =
                [@ EXCEPT !.name = input.name, !.position = input.position,
                          !.color = input.color,
                          !.description = input.description]],
            nextId)}
    ELSE {}

\* deleteWorkflowState(id): the record is removed.
deleteWorkflowState(id) ==
    {Failure} \cup
    IF id \in Ids /\ remote[id].exists
    THEN {Success(NoResponse, [remote EXCEPT ![id] = NoRecord], nextId)}
    ELSE {}

\* The ids of the records called name in the team with key teamKey.
Matches(name, teamKey) ==
    {i \in Ids : /\ remote[i].exists
                 /\ remote[i].name = name
                 /\ TeamKey(remote[i].team) = teamKey}

RECURSIVE Nodes(_)
\* The nodes of a find response: the matching ids in ascending order.
Nodes(ids) ==
    IF ids = {}
    THEN <<>>
    ELSE LET n     == CHOOSE k \in 1 .. MaxId :
                          IdOf(k) \in ids /\ \A j \in 1 .. (k - 1) : IdOf(j) \notin ids
             least == IdOf(n)
         IN  <<[id |-> least]>> \o Nodes(ids \ {least})

\* findWorkflowState(name, teamKey)
findWorkflowState(name, teamKey) ==
    {Failure,
     Success([workflowStates |-> [nodes |-> Nodes(Matches(name, teamKey))]],
             remote, nextId)}

(***************************************************************************)
(* The handlers' conversions between the model value and the wire.         *)
(***************************************************************************)
\* The create input that leaves the description out.
CreateInput_NoDescription(data) ==
    [name        |-> ValueString(data.name),
     type        |-> ValueString(data.type),
     position    |-> Float64(ValueBigFloat(data.position)),
     color       |-> ValueString(data.color),
     description |-> StringNull,
     teamId      |-> ValueString(data.team_id)]

\* Create: WorkflowStateCreateInput built from the plan.
CreateInput(data) ==
    [name        |-> ValueString(data.name),
     type        |-> ValueString(data.type),
     position    |-> Float64(ValueBigFloat(data.position)),
     color       |-> ValueString(data.color),
     description |-> ValueStringPointer(data.description),
     teamId      |-> ValueString(data.team_id)]

\* Create's fill that forgets the id of the response.
Created_IdKept(data, workflowState) ==
    [data EXCEPT
        !.name        = StringValue(workflowState.name),
        !.type        = StringValue(workflowState.type),
        !.position    = NumberValue(NewFloat(workflowState.position)),
        !.color       = StringValue(workflowState.color),
        !.description = StringPointerValue(workflowState.description)]

\* Create: the model value filled from the response; team_id stays the plan's.
Created(data, workflowState) ==
    [data EXCEPT
        !.id          = StringValue(workflowState.id),
        !.name        = StringValue(workflowState.name),
        !.type        = StringValue(workflowState.type),
        !.position    = NumberValue(NewFloat(workflowState.position)),
        !.color       = StringValue(workflowState.color),
        !.description = StringPointerValue(workflowState.description)]

\* Read's refresh that leaves the stored description.
Refreshed_StaleDescription(data, workflowState) ==
    [data EXCEPT
        !.name        = StringValue(workflowState.name),
        !.type        = StringValue(workflowState.type),
        !.position    = NumberValue(NewFloat(workflowState.position)),
        !.color       = StringValue(workflowState.color),
        !.team_id     = StringValue(workflowState.team.id)]

\* Read's refresh with the team reference dropped.
Refreshed_KeepTeam(data, workflowState) ==
    [data EXCEPT
        !.name        = StringValue(workflowState.name),
        !.type        = StringValue(workflowState.type),
        !.position    = NumberValue(NewFloat(workflowState.position)),
        !.color       = StringValue(workflowState.color),
        !.description = StringPointerValue(workflowState.description)]

\* Read: the model value filled from the response; the id stays.
Refreshed(data, workflowState) ==
    [data EXCEPT
        !.name        = StringValue(workflowState.name),
        !.type        = StringValue(workflowState.type),
        !.position    = NumberValue(NewFloat(workflowState.position)),
        !.color       = StringValue(workflowState.color),
        !.team_id     = StringValue(workflowState.team.id),
        !.description = StringPointerValue(workflowState.description)]

\* Update: WorkflowStateUpdateInput built from the plan.
UpdateInput(data) ==
    [name        |-> ValueString(data.name),
     color       |-> ValueString(data.color),
     description |-> ValueStringPointer(data.description),
     position    |-> Float64(ValueBigFloat(data.position))]

\* Update: the four mutable fields filled from the response.
Updated(data, workflowState) ==
    [data EXCEPT
        !.name        = StringValue(workflowState.name),
        !.position    = NumberValue(NewFloat(workflowState.position)),
        !.color       = StringValue(workflowState.color),
        !.description = StringPointerValue(workflowState.description)]

RECURSIVE Split(_, _)
\* strings.Split(s, sep) for a one-character separator.
Split(s, sep) ==
    IF s = <<>>
    THEN << <<>> >>
    ELSE LET rest == Split(Tail(s), sep)
         IN  IF Head(s) = sep
             THEN << <<>> >> \o rest
             ELSE << <<Head(s)>> \o Head(rest) >> \o Tail(rest)

\* The identifier check that forgets the empty team key.
ImportIdMalformed_KeyUnchecked(parts) ==
    Len(parts) # 2 \/ parts[1] = <<>>

\* ImportState: the identifier is rejected.
ImportIdMalformed(parts) ==
    Len(parts) # 2 \/ parts[1] = <<>> \/ parts[2] = <<>>

\* The lookup check that accepts several matches.
ImportLookupFailed_AnyMatch(out) ==
    out.err \/ Len(out.response.workflowStates.nodes) < 1

\* ImportState: the lookup is rejected.
ImportLookupFailed(out) ==
    out.err \/ Len(out.response.workflowStates.nodes) # 1

(***************************************************************************)
(* The handlers.  Each sets state, remote, nextId and the record of the    *)
(* invocation (op, diag, calls, response); the host's steps below add what *)
(* the framework does around them.                                         *)
(***************************************************************************)
Call(fn, args, out) == [fn |-> fn, args |-> args, err |-> out.err]

\* A failure that prunes the resource from the state.
Failed_Pruning ==
    /\ diag' = ClientError
    /\ response' = NoResponse
    /\ state' = Absent
    /\ UNCHANGED <<remote, nextId>>

\* The remote call failed: a Client Error, and nothing is written.
Failed ==
    /\ diag' = ClientError
    /\ response' = NoResponse
    /\ UNCHANGED <<state, remote, nextId>>

\* Create(plan)
Create(plan) ==
    LET data  == plan
        input == CreateInput(data)
    IN  \E out \in createWorkflowState(input) :
            /\ op' = "Create"
            /\ request' = PlanRequest(plan)
            /\ calls' = <<Call("createWorkflowState", input, out)>>
            /\ IF out.err
               THEN Failed
               ELSE /\ diag' = NoError
                    /\ response' = out.response
                    /\ remote' = out.remote
                    /\ nextId' = out.nextId
                    /\ state' = Stored(Created(data, out.response))

\* Read, run on the stored record.
Read ==
    LET data == Loaded(state)
        id   == ValueString(data.id)
    IN  \E out \in getWorkflowState(id) :
            /\ op' = "Read"
            /\ request' = NoRequest
            /\ calls' = <<Call("getWorkflowState", [id |-> id], out)>>
            /\ IF out.err
               THEN Failed
               ELSE /\ diag' = NoError
                    /\ response' = out.response
                    /\ remote' = out.remote
                    /\ nextId' = out.nextId
                    /\ state' = Stored(Refreshed(data, out.response))

\* Update(plan)
Update(plan) ==
    LET data  == plan
        input == UpdateInput(data)
        id    == ValueString(data.id)
    IN  \E out \in updateWorkflowState(input, id) :
            /\ op' = "Update"
            /\ request' = PlanRequest(plan)
            /\ calls' = <<Call("updateWorkflowState",
                               [input |-> input, id |-> id], out)>>
            /\ IF out.err
               THEN Failed
               ELSE /\ diag' = NoError
                    /\ response' = out.response
                    /\ remote' = out.remote
                    /\ nextId' = out.nextId
                    /\ state' = Stored(Updated(data, out.response))

\* Delete that tries the remote call a second time when it fails.
Delete_Retrying ==
    LET data == Loaded(state)
        id   == ValueString(data.id)
    IN  \E first \in deleteWorkflowState(id), out \in deleteWorkflowState(id) :
            /\ op' = "Delete"
            /\ request' = NoRequest
            /\ calls' = IF first.err
                        THEN <<Call("deleteWorkflowState", [id |-> id], first),
                               Call("deleteWorkflowState", [id |-> id], out)>>
                        ELSE <<Call("deleteWorkflowState", [id |-> id], first)>>
            /\ IF first.err /\ out.err
               THEN Failed
               ELSE /\ diag' = NoError
                    /\ response' = NoResponse
                    /\ remote' = IF first.err THEN out.remote ELSE first.remote
                    /\ nextId' = nextId
                    /\ state' = Absent

\* Delete, run on the stored record; the framework removes the resource from
\* the state when the handler reports no error.
Delete ==
    LET data == Loaded(state)
        id   == ValueString(data.id)
    IN  \E out \in deleteWorkflowState(id) :
            /\ op' = "Delete"
            /\ request' = NoRequest
            /\ calls' = <<Call("deleteWorkflowState", [id |-> id], out)>>
            /\ IF out.err
               THEN Failed
               ELSE /\ diag' = NoError
                    /\ response' = NoResponse
                    /\ remote' = out.remote
                    /\ nextId' = out.nextId
                    /\ state' = Absent

\* ImportState(id)
ImportState(id) ==
    LET parts == Split(id, ":")
    IN  /\ op' = "Import"
        /\ request' = ImportRequest(id)
        /\ IF ImportIdMalformed(parts)
           THEN /\ diag' = ImportIdError
                /\ calls' = <<>>
                /\ response' = NoResponse
                /\ UNCHANGED <<state, remote, nextId>>
           ELSE \E out \in findWorkflowState(parts[1], parts[2]) :
                  /\ calls' = <<Call("findWorkflowState",
                                     [name |-> parts[1], teamKey |-> parts[2]],
                                     out)>>
                  /\ IF ImportLookupFailed(out)
                     THEN Failed
                     ELSE /\ diag' = NoError
                          /\ response' = out.response
                          /\ remote' = out.remote
                          /\ nextId' = out.nextId
                          /\ state' =
                               OnlyId(out.response.workflowStates.nodes[1].id)

(***************************************************************************)
(* The host: which handler the framework invokes, and with what.           *)
(***************************************************************************)
\* A configuration that fails a validator is rejected before any handler.
ValidateConfig(config) ==
    /\ planned = NoPlan
    /\ ~SchemaValid(config)
    /\ op' = "Validate"
    /\ request' = NoRequest
    /\ diag' = SchemaValidationError
    /\ calls' = <<>>
    /\ response' = NoResponse
    /\ UNCHANGED <<state, remote, nextId, planned, origin>>

\* Apply with no stored record: Create.
ApplyCreate(config) ==
    /\ planned = NoPlan
    /\ ~state.present
    /\ SchemaValid(config)
    /\ Create(PlanOf(config, state))
    /\ origin' = IF diag' = NoError THEN CreatedFrom(config) ELSE NoOrigin
    /\ UNCHANGED planned

\* Apply of a changed configuration that needs no replacement: Update.
ApplyUpdate(config) ==
    /\ planned = NoPlan
    /\ Populated(state)
    /\ SchemaValid(config)
    /\ PlanOf(config, state) # Loaded(state)
    /\ ~RequiresReplace(PlanOf(config, state), state)
    /\ Update(PlanOf(config, state))
    /\ origin' = NoOrigin
    /\ UNCHANGED planned

\* Apply of a configuration that changes type or team_id: the replacement
\* starts with Delete; Create follows if Delete succeeded.
ApplyReplace(config) ==
    /\ planned = NoPlan
    /\ Populated(state)
    /\ SchemaValid(config)
    /\ RequiresReplace(PlanOf(config, state), state)
    /\ Delete
    /\ planned' = IF diag' = NoError THEN [pending |-> TRUE, config |-> config]
                                     ELSE NoPlan
    /\ origin' = NoOrigin

\* The second half of a replacement: Create of the planned record.
ApplyReplaceCreate ==
    /\ planned # NoPlan
    /\ Create(PlanOf(planned.config, state))
    /\ planned' = NoPlan
    /\ origin' = IF diag' = NoError THEN CreatedFrom(planned.config)
                                    ELSE NoOrigin

\* Refresh: Read of the stored record.
Refresh ==
    /\ planned = NoPlan
    /\ state.present
    /\ Read
    /\ UNCHANGED <<planned, origin>>

\* Destroy: Delete of the stored record.
Destroy ==
    /\ planned = NoPlan
    /\ state.present
    /\ Delete
    /\ origin' = NoOrigin
    /\ UNCHANGED planned

\* Import of a resource that is not in the state.
Import(id) ==
    /\ planned = NoPlan
    /\ ~state.present
    /\ ImportState(id)
    /\ origin' = IF diag' = NoError THEN Imported ELSE NoOrigin
    /\ UNCHANGED planned

(***************************************************************************)
(* Other clients of the API.                                               *)
(***************************************************************************)
Floats == {Float64(p) : p \in Positions}

\* The records other clients may leave behind.
RemoteRecords ==
    [exists : {TRUE}, name : ValidNames, type : {"started", "completed"},
     position : Floats, color : {"#ff0000"}, description : Descriptions,
     team : Uuids]

External ==
    /\ op' = "External"
    /\ request' = NoRequest
    /\ diag' = NoError
    /\ calls' = <<>>
    /\ response' = NoResponse
    /\ origin' = NoOrigin
    /\ UNCHANGED <<state, planned>>

\* Another client creates a workflow state.
ExternalCreate(rec) ==
    /\ nextId <= MaxId
    /\ remote' = [remote EXCEPT ![IdOf(nextId)] = rec]
    /\ nextId' = nextId + 1
    /\ External

\* Another client updates a workflow state: as with updateWorkflowState, its
\* type and team stay.
ExternalEdit(i, rec) ==
    /\ remote[i].exists
    /\ rec # remote[i]
    /\ rec.type = remote[i].type
    /\ rec.team = remote[i].team
    /\ remote' = [remote EXCEPT ![i] = rec]
    /\ UNCHANGED nextId
    /\ External

\* Another client deletes a workflow state.
ExternalDelete(i) ==
    /\ remote[i].exists
    /\ remote' = [remote EXCEPT ![i] = NoRecord]
    /\ UNCHANGED nextId
    /\ External

(***************************************************************************)
(* Spec: the life of one managed workflow state, from configurations over  *)
(* every attribute, while other clients edit or delete its remote record.  *)
(***************************************************************************)
Init ==
    /\ state = Absent
    /\ remote = [i \in Ids |-> NoRecord]
    /\ nextId = 1
    /\ planned = NoPlan
    /\ op = "None"
    /\ request = NoRequest
    /\ diag = NoError
    /\ calls = <<>>
    /\ response = NoResponse
    /\ origin = NoOrigin

Next ==
    \/ \E config \in Configs : ValidateConfig(config)
    \/ \E config \in Configs : ApplyCreate(config)
    \/ \E config \in Configs : ApplyUpdate(config)
    \/ \E config \in Configs : ApplyReplace(config)
    \/ ApplyReplaceCreate
    \/ Refresh
    \/ Destroy
    \/ \E i \in Ids, rec \in RemoteRecords : ExternalEdit(i, rec)
    \/ \E i \in Ids : ExternalDelete(i)

Spec == Init /\ [][Next]_vars

(***************************************************************************)
(* SpecImport: all five handlers, import included, among the workflow      *)
(* states of other clients.  The configurations and the other clients'     *)
(* records vary in name and team only.                                     *)
(***************************************************************************)
ImportConfigs ==
    [name : ValidNames \cup {<<>>}, type : {"started"}, position : {MaxPos},
     color : {"#ff0000"}, description : {StringNull}, team_id : Uuids]

ImportRecords ==
    [exists : {TRUE}, name : ValidNames, type : {"started"},
     position : {Float64(MaxPos)}, color : {"#ff0000"},
     description : {StringNull}, team : Uuids]

NextImport ==
    \/ \E id \in ImportIds : Import(id)
    \/ \E config \in ImportConfigs : ValidateConfig(config)
    \/ \E config \in ImportConfigs : ApplyCreate(config)
    \/ \E config \in ImportConfigs : ApplyUpdate(config)
    \/ \E config \in ImportConfigs : ApplyReplace(config)
    \/ ApplyReplaceCreate
    \/ Refresh
    \/ Destroy
    \/ \E rec \in ImportRecords : ExternalCreate(rec)
    \/ \E i \in Ids, rec \in ImportRecords : ExternalEdit(i, rec)
    \/ \E i \in Ids : ExternalDelete(i)

SpecImport == Init /\ [][NextImport]_vars

(***************************************************************************)
(* Properties.                                                             *)
(***************************************************************************)
\* The latest invocation ran handler h and reported no error.
Succeeded(h) == op = h /\ diag = NoError

\* n is a float of MantBits bits of mantissa: m * 2^e with m < 2^MantBits.
Representable(n) ==
    \E m \in 0 .. (Pow2(MantBits) - 1), e \in 0 .. n : n = m * Pow2(e)

Distance(a, b) == IF a >= b THEN a - b ELSE b - a

\* v is a float nearest to x.
NearestFloat(v, x) ==
    /\ Representable(v)
    /\ \A w \in 0 .. (2 * x + 1) :
          Representable(w) => Distance(v, x) <= Distance(w, x)

\* C1: after a successful Create and then a successful Read, with nothing
\* else done to the remote record in between, the stored name, type, color,
\* description and team_id are those of the desired record and the stored
\* position is the desired position narrowed to a float.
C1_CreateThenRead ==
    (Succeeded("Read") /\ origin.created) =>
        /\ state.name = StringValue(origin.config.name)
        /\ state.type = StringValue(origin.config.type)
        /\ state.color = StringValue(origin.config.color)
        /\ state.description = origin.config.description
        /\ state.team_id = StringValue(origin.config.team_id)
        /\ ~state.position.null
        /\ NearestFloat(state.position.value, origin.config.position)

\* A Read after a Create whose desired position was not a float.
C1_Witness ==
    /\ Succeeded("Read")
    /\ origin.created
    /\ state.position.value # origin.config.position
    /\ ~state.description.null

UpdateCallFields ==
    \A k \in 1 .. Len(calls) :
        calls[k].fn = "updateWorkflowState" =>
            /\ DOMAIN calls[k].args = {"input", "id"}
            /\ DOMAIN calls[k].args.input =
                   {"name", "color", "description", "position"}

UpdateKeepsTypeAndTeam ==
    (op' = "Update" /\ diag' = NoError) =>
        /\ state'.type = state.type
        /\ state'.team_id = state.team_id
        /\ state'.name = StringValue(response'.name)
        /\ state'.color = StringValue(response'.color)
        /\ state'.description = response'.description
        /\ state'.position =
               NumberValue(response'.position.m * Pow2(response'.position.e))

UpdateOnlyOfSameTypeAndTeam ==
    op' = "Update" =>
        /\ Populated(state)
        /\ request'.plan.type = state.type
        /\ request'.plan.team_id = state.team_id
        /\ request'.plan.id = state.id

ChangesTypeOrTeam(config) ==
    \/ StringValue(config.type) # state.type
    \/ StringValue(config.team_id) # state.team_id

ReplacementDeletesFirst ==
    (planned = NoPlan /\ planned' # NoPlan) =>
        /\ Populated(state)
        /\ ChangesTypeOrTeam(planned'.config)
        /\ op' = "Delete"
        /\ diag' = NoError
        /\ ~state'.present

ReplacementCreates ==
    (planned # NoPlan /\ op' # "External") =>
        /\ op' = "Create"
        /\ planned' = NoPlan
        /\ request'.plan.type = StringValue(planned.config.type)
        /\ request'.plan.team_id = StringValue(planned.config.team_id)
        /\ calls'[1].args.type = planned.config.type
        /\ calls'[1].args.teamId = planned.config.team_id

\* C2: Update never changes type or team_id.  The remote update call
\* carries name, color, description and position and the id, nothing else;
\* a successful Update takes those four fields from the response and leaves
\* type and team_id as stored; a plan that changes type or team_id runs
\* Delete and then Create, never Update.
C2_TypeAndTeamReplaceOnly ==
    /\ []UpdateCallFields
    /\ [][UpdateKeepsTypeAndTeam /\ UpdateOnlyOfSameTypeAndTeam
            /\ ReplacementDeletesFirst /\ ReplacementCreates]_vars

\* A successful Update of a record that has been replaced before.
C2_Witness ==
    /\ Succeeded("Update")
    /\ ValueString(state.id) = IdOf(2)

Colons(id) == Cardinality({k \in 1 .. Len(id) : id[k] = ":"})

\* The identifier is not one name, one colon and one key.
IllFormed(id) ==
    \/ Colons(id) # 1
    \/ id[1] = ":"
    \/ id[Len(id)] = ":"

\* C3: Import of an identifier that does not split on ":" into exactly two
\* non-empty parts fails with the identifier-format error, makes no remote
\* call and writes nothing to the state.
C3_IllFormedImportRejected ==
    (op = "Import" /\ IllFormed(request.id)) =>
        /\ diag = ImportIdError
        /\ calls = <<>>
        /\ response = NoResponse
        /\ ~state.present

\* An Import rejected for its identifier while a remote record exists.
C3_Witness ==
    /\ op = "Import"
    /\ diag = ImportIdError
    /\ Colons(request.id) = 1
    /\ \E i \in Ids : remote[i].exists

\* The remote records the find call of the latest Import was asked for.
Found == Matches(calls[1].args.name, calls[1].args.teamKey)

\* C4: Import of a well-formed identifier fails with a Client Error and
\* sets no id in the state when the find call errors or its matches are not
\* exactly one.
C4_ImportLookupFails ==
    (op = "Import" /\ calls # <<>>
        /\ (calls[1].err \/ Cardinality(Found) # 1)) =>
        /\ diag = ClientError
        /\ ~state.present

\* An Import whose find call answered with two matches.
C4_Witness ==
    /\ op = "Import"
    /\ calls # <<>>
    /\ ~calls[1].err
    /\ Cardinality(Found) = 2
    /\ diag = ClientError

\* The stored record equals the remote record r in every attribute but id.
FilledFrom(st, r) ==
    /\ r.exists
    /\ st.name = StringValue(r.name)
    /\ st.type = StringValue(r.type)
    /\ st.position = NumberValue(r.position.m * Pow2(r.position.e))
    /\ st.color = StringValue(r.color)
    /\ st.description = r.description
    /\ st.team_id = StringValue(r.team)

ImportSeedsOnlyId ==
    (op = "Import" /\ calls # <<>> /\ ~calls[1].err
        /\ Cardinality(Found) = 1) =>
        /\ diag = NoError
        /\ state.present
        /\ ~state.id.null
        /\ Found = {state.id.value}
        /\ state.name = StringNull
        /\ state.type = StringNull
        /\ state.position = NumberNull
        /\ state.color = StringNull
        /\ state.description = StringNull
        /\ state.team_id = StringNull

ReadFillsImported ==
    (origin = Imported /\ state.name.null
        /\ op' = "Read" /\ diag' = NoError) =>
        /\ state'.id = state.id
        /\ FilledFrom(state', remote'[state.id.value])

\* C5: when exactly one remote record matches a well-formed identifier,
\* Import writes the id of that record to the state and nothing else; a
\* successful Read after it fills every other attribute from the remote
\* record with that id.
C5_ImportThenRead ==
    /\ []ImportSeedsOnlyId
    /\ [][ReadFillsImported]_vars

\* A successful Read of an imported record.
C5_Witness ==
    /\ Succeeded("Read")
    /\ origin = Imported
    /\ ~state.name.null
    /\ ~state.team_id.null

\* C6: a desired record that fails a validator (empty name, type outside
\* the enumeration, color that is no hex colour, team_id that is no UUID) is
\* rejected at validation: no create or update call carries such a value.
C6_InvalidNeverSent ==
    /\ op = "Validate" => (diag = SchemaValidationError /\ calls = <<>>)
    /\ \A k \in 1 .. Len(calls) :
          /\ calls[k].fn = "createWorkflowState" =>
                /\ calls[k].args.name # <<>>
                /\ calls[k].args.type \in WorkflowStateTypes
                /\ calls[k].args.color \in HexColors
                /\ calls[k].args.teamId \in Uuids
          /\ calls[k].fn = "updateWorkflowState" =>
                /\ calls[k].args.input.name # <<>>
                /\ calls[k].args.input.color \in HexColors

\* A configuration rejected by a validator while a record is stored.
C6_Witness ==
    /\ op = "Validate"
    /\ diag = SchemaValidationError
    /\ state.present

\* C7: a successful Read leaves name, type, position, color and
\* description as the remote record has them, team_id as the id of the
\* record's team, and id as the id it read by.
C7_ReadOverwrites ==
    Succeeded("Read") =>
        /\ state.present
        /\ state.id = StringValue(calls[1].args.id)
        /\ FilledFrom(state, remote[calls[1].args.id])

\* A successful Read of a record that has a description and that was
\* updated, or changed by another client, since it was created.
C7_Witness ==
    /\ Succeeded("Read")
    /\ ~origin.created
    /\ ~origin.imported
    /\ ~state.description.null

CrudHandlers == {"Create", "Read", "Update", "Delete"}

\* C8: in Create, Read, Update and Delete an error of the remote call is
\* reported as a Client Error and nothing is written to the state: after a
\* failed Create the resource is absent, after a failed Update or Delete
\* the stored record is as before, and a failed Read, also of a record the
\* remote no longer has, keeps the stored record.
C8_FailureWritesNothing ==
    [][/\ (op' \in CrudHandlers /\ calls' # <<>> /\ calls'[Len(calls')].err) =>
             /\ diag' = ClientError
             /\ state' = state
             /\ op' = "Create" => ~state'.present
             /\ op' # "Create" => state'.present
       /\ (op' = "Read" /\ state.present /\ ValueString(state.id) \in Ids
             /\ ~remote[ValueString(state.id)].exists) =>
             /\ diag' = ClientError
             /\ state' = state]_vars

\* A failed Read of a record another client has deleted.
C8_Witness ==
    /\ op = "Read"
    /\ diag = ClientError
    /\ Populated(state)
    /\ ~remote[state.id.value].exists

RemoteOperation(h) ==
    CASE h = "Create" -> "createWorkflowState"
      [] h = "Read"   -> "getWorkflowState"
      [] h = "Update" -> "updateWorkflowState"
      [] h = "Delete" -> "deleteWorkflowState"
      [] h = "Import" -> "findWorkflowState"

\* C9: an invocation of Create, Read, Update, Delete or Import makes at
\* most one remote call, that of its own remote operation, and the outcome
\* of that call is the outcome of the invocation: no retry.
C9_OneCallNoRetry ==
    /\ Len(calls) <= 1
    /\ \A k \in 1 .. Len(calls) :
          /\ op \in CrudHandlers \cup {"Import"}
          /\ calls[k].fn = RemoteOperation(op)
          /\ calls[k].err => diag = ClientError
    /\ op \in CrudHandlers =>
          /\ Len(calls) = 1
          /\ diag = NoError <=> ~calls[1].err
    /\ op = "Import" => (calls = <<>> <=> diag = ImportIdError)

\* A Delete that failed on its one call.
C9_Witness ==
    /\ op = "Delete"
    /\ diag = ClientError
    /\ Len(calls) = 1

CreateStoresResponseId ==
    /\ \A k \in 1 .. Len(calls) :
          calls[k].fn = "createWorkflowState" =>
              "id" \notin DOMAIN calls[k].args
    /\ Succeeded("Create") =>
          /\ response.id \in Ids
          /\ state.id = StringValue(response.id)

ReadAndUpdateKeepId ==
    (state.present /\ op' \in {"Read", "Update"}) =>
        /\ state'.present
        /\ state'.id = state.id

\* C10: the id is the server's and does not change: Create sends no id and
\* stores the id of the create response, and Read and Update of a stored
\* record, created or imported, leave its id as it was.
C10_IdServerAssignedAndStable ==
    /\ []CreateStoresResponseId
    /\ [][ReadAndUpdateKeepId]_vars

\* A successful Update of a record that was created second.
C10_Witness ==
    /\ Succeeded("Update")
    /\ state.id = StringValue(IdOf(2))
    /\ \E i \in Ids : i # state.id.value /\ remote[i].exists

====
